---- MODULE Spec2Model ----
(***************************************************************************)
(* A model of the poll / suggestion lifecycle of monnocat/artistic:        *)
(* the suggest command (commands.rs), the poll interaction handler and the *)
(* announcement scheduler (handlers.rs), the poll cache and the            *)
(* announcement path (types.rs) and the SQLite store (database.rs).        *)
(*                                                                         *)
(* Spec      : submissions, concurrent poll interactions, announcements    *)
(*             and process restarts over the store and the poll cache.     *)
(* SpecSerial: the same with one task at a time and more polls.            *)
(* SpecSched : the scheduler loop (flag file, next_weekday_at, sleep,      *)
(*             announcements, flag flip and write) with restarts.          *)
(* SpecCodec : update_poll_status's columns and PollStatus::parse over     *)
(*             every status value and over arbitrary rows.                 *)
(***************************************************************************)
EXTENDS Integers, Sequences, FiniteSets, TLC

\* ------------------------------------------------------------------ bounds
MaxUsers == 3        \* user ids 1..MaxUsers
MaxPolls == 1        \* poll messages posted under Spec (tasks interleave freely)
MaxSerialPolls == 2  \* poll messages posted under SpecSerial (one task at a time)
MaxThreshold == 2    \* config.poll_threshold ranges over 1..MaxThreshold
UnitsPerDay == 3     \* clock ticks per day
MaxWeeks == 2        \* the scheduler starts no iteration after MaxWeeks weeks
MaxDelay == 1
MaxRowLen == 3
MaxCode == 5        \* ticks that may pass between two steps of the scheduler

Users == 1..MaxUsers
Handlers == {1, 2}   \* concurrently running handle_poll_interaction tasks

VARIABLES
    poll_threshold,  \* config.poll_threshold
    dbPolls,         \* the store's polls table: a set of rows
    dbSuggestions,   \* the store's suggestions table: a set of rows
    polls,           \* Data.polls: the mutex-guarded Vec<Poll>
    lock,            \* holder of the Data.polls mutex: 0 (free) or a task
    h,               \* per handler task: its position and locals
    sub,             \* the suggest command task: its position and locals
    shown,           \* notification sink: status displayed by each poll message
    nextMsg,         \* notification sink: id of the next message posted
    announced,       \* notification sink: the suggestions announced so far (ids)
    weekday,         \* config.announcement_weekday, 0..6
    time,            \* config.announcement_time, ticks into the day
    now,             \* the wall clock, in ticks
    next_date,       \* the scheduler's next_date
    biweekly_flag,   \* the scheduler's in-memory cadence flag
    flagFile,        \* biweekly_flag.bin: "absent" or its bytes
    sched,           \* the scheduler task: its position and iteration record
    written,         \* the flag value of the last fs::write, or "failed"
    value,           \* codec: the PollStatus handed to update_poll_status
    columns,         \* codec: the (status, votes) columns of the row
    parsed           \* codec: what PollStatus::parse made of the columns

pollVars == <<poll_threshold, dbPolls, dbSuggestions, polls, lock, h, sub,
              shown, nextMsg, announced>>
schedVars == <<weekday, time, now, next_date, biweekly_flag, flagFile, sched,
               written>>
codecVars == <<value, columns, parsed>>
vars == <<poll_threshold, dbPolls, dbSuggestions, polls, lock, h, sub,
          shown, nextMsg, announced,
          weekday, time, now, next_date, biweekly_flag, flagFile, sched, written,
          value, columns, parsed>>

\* ----------------------------------------------------------------- helpers
Max(S) == CHOOSE x \in S : \A y \in S : y <= x
Min(S) == CHOOSE x \in S : \A y \in S : x <= y

\* All orders in which the elements of a finite set can be iterated.
RECURSIVE Perms(_)
Perms(S) ==
    IF S = {} THEN {<<>>}
    ELSE UNION {{<<x>> \o p : p \in Perms(S \ {x})} : x \in S}

Range(s) == {s[k] : k \in DOMAIN s}

\* Vec::remove(index): drops element k (1-based here) and shifts the rest.
RemoveAt(s, k) == [j \in 1..(Len(s) - 1) |-> IF j < k THEN s[j] ELSE s[j + 1]]

\* rowid of the next inserted row of a table (INTEGER PRIMARY KEY alias).
NextRowId(table) == IF table = {} THEN 1 ELSE Max({r.id : r \in table}) + 1

\* ------------------------------------------------------------ strings
\* A string is modelled as the sequence of its characters.
Digits == <<"0", "1", "2", "3", "4", "5", "6", "7", "8", "9">>

\* u64::to_string: the decimal digits of n.
RECURSIVE to_string(_)
to_string(n) ==
    IF n < 10 THEN <<Digits[n + 1]>>
    ELSE to_string(n \div 10) \o <<Digits[(n % 10) + 1]>>

\* Itertools::join(sep): the items with sep between them.
RECURSIVE join(_, _)
join(items, sep) ==
    IF items = <<>> THEN <<>>
    ELSE IF Len(items) = 1 THEN items[1]
    ELSE items[1] \o <<sep>> \o join(Tail(items), sep)

\* str::split(sep): the pieces between the separators (one piece, the
\* whole string, when there is no separator; so one empty piece of "").
RECURSIVE split(_, _)
split(str, sep) ==
    IF \A k \in DOMAIN str : str[k] # sep THEN <<str>>
    ELSE LET k == CHOOSE x \in DOMAIN str :
                    str[x] = sep /\ \A y \in 1..(x - 1) : str[y] # sep
         IN <<SubSeq(str, 1, k - 1)>> \o split(SubSeq(str, k + 1, Len(str)), sep)

\* str::split: a trailing empty piece is kept.
split_KeepLast(str, sep) == split(str, sep)

\* str::split_terminator(sep): as split, without a trailing empty piece.
split_terminator(str, sep) ==
    LET pieces == split(str, sep)
    IN IF pieces[Len(pieces)] = <<>> THEN SubSeq(pieces, 1, Len(pieces) - 1)
       ELSE pieces

\* The number a string of decimal digits denotes.
RECURSIVE from_digits(_)
from_digits(str) ==
    IF str = <<>> THEN 0
    ELSE from_digits(SubSeq(str, 1, Len(str) - 1)) * 10
           + ((CHOOSE d \in DOMAIN Digits : Digits[d] = str[Len(str)]) - 1)

\* str::parse::<UserId>: the id a piece denotes, 0 when parse returns Err
\* (no digits, another character, or the id 0).
parse_id(str) ==
    IF str # <<>> /\ \A k \in DOMAIN str : str[k] \in Range(Digits)
    THEN from_digits(str) ELSE 0

\* ------------------------------------------------------------- PollStatus
None == [some |-> FALSE, list |-> <<>>]
Some(l) == [some |-> TRUE, list |-> l]

\* PollStatus::default(): Pending with no votes.
DefaultStatus == [status |-> "Pending", votes |-> {}]

\* PollStatus::parse(status, votes): the status, or "invalid" (Err), or
\* "panic" (the unwrap of a vote that does not parse).
PollStatus_parse(code, votes) ==
    IF code = 0 /\ votes.some
    THEN LET pieces == split_terminator(votes.list, ",")
             ids == {parse_id(pieces[k]) : k \in DOMAIN pieces}
         IN IF 0 \in ids THEN [status |-> "panic", votes |-> {}]
            ELSE [status |-> "Pending", votes |-> ids]
    ELSE IF code = 0 THEN [status |-> "Pending", votes |-> {}]
    ELSE IF code = 1 /\ ~votes.some THEN [status |-> "Completed", votes |-> {}]
    ELSE IF code = 2 /\ ~votes.some THEN [status |-> "Revoked", votes |-> {}]
    ELSE IF code = 3 /\ ~votes.some THEN [status |-> "Vetoed", votes |-> {}]
    ELSE [status |-> "invalid", votes |-> {}]

\* The (status, votes) columns update_poll_status may write for a status:
\* a Pending vote set is joined in the HashSet's iteration order.
StatusColumns(st) ==
    IF st.status = "Pending"
    THEN {[status |-> 0,
           votes |-> Some(join([k \in DOMAIN p |-> to_string(p[k])], ","))] :
          p \in Perms(st.votes)}
    ELSE IF st.status = "Completed" THEN {[status |-> 1, votes |-> None]}
    ELSE IF st.status = "Revoked" THEN {[status |-> 2, votes |-> None]}
    ELSE {[status |-> 3, votes |-> None]}

\* PollStatus::format(threshold): the status text of the poll embed.
PollStatus_format(st) ==
    IF st.status = "Pending"
    THEN [status |-> "Pending", count |-> Cardinality(st.votes)]
    ELSE [status |-> st.status, count |-> 0]

\* Poll::new(id, message_id, author_id, internal)
Poll_new(id, message_id, author_id, internal) ==
    [id |-> id, message_id |-> message_id, author_id |-> author_id,
     internal |-> internal, status |-> "Pending", votes |-> {}]

NoPoll == [id |-> 0, message_id |-> 0, author_id |-> 0, internal |-> FALSE,
           status |-> "Pending", votes |-> {}]

\* ------------------------------------------------------------ database.rs
\* insert_poll: a new row with the default status; returns its rowid.
insert_poll(table, message_id, author_id, internal) ==
    table \cup {[id |-> NextRowId(table), message_id |-> message_id,
                 author_id |-> author_id, internal |-> internal,
                 status |-> 0, votes |-> None]}

\* insert_suggestion: a new, not yet approved row keyed to its poll.
insert_suggestion(table, user_id, internal, poll_id) ==
    table \cup {[id |-> NextRowId(table), user_id |-> user_id,
                 internal |-> internal, poll_id |-> poll_id,
                 approved |-> FALSE]}

\* fetch_suggestion: the id of the first row WHERE poll_id = ?, or 0.
fetch_suggestion(table, poll_id) ==
    LET rows == {r \in table : r.poll_id = poll_id}
    IN IF rows = {} THEN 0 ELSE Min({r.id : r \in rows})

\* An UPDATE that matches no row.
approve_suggestion_Noop(table, poll_id) == table

\* approve_suggestion: UPDATE suggestions SET approved = TRUE WHERE poll_id = ?
approve_suggestion(table, poll_id) ==
    {IF r.poll_id = poll_id THEN [r EXCEPT !.approved = TRUE] ELSE r : r \in table}

\* remove_suggestion: DELETE FROM suggestions WHERE id = ?
remove_suggestion(table, suggestion_id) ==
    {r \in table : r.id # suggestion_id}

\* remove_suggestion_by_poll: DELETE FROM suggestions WHERE poll_id = ?
remove_suggestion_by_poll(table, poll_id) ==
    {r \in table : r.poll_id # poll_id}

\* Data::remove_suggestion(poll_id): hands its argument to remove_suggestion.
Data_remove_suggestion(table, poll_id) == remove_suggestion(table, poll_id)

\* An update that reports success and writes nothing.
update_poll_status_Noop(table, poll_id, cols) == table

\* update_poll_status: UPDATE polls SET status = ?, votes = ? WHERE id = ?
update_poll_status(table, poll_id, cols) ==
    {IF r.id = poll_id THEN [r EXCEPT !.status = cols.status, !.votes = cols.votes]
     ELSE r : r \in table}

\* remove_poll: DELETE FROM polls WHERE id = ?
remove_poll(table, poll_id) == {r \in table : r.id # poll_id}

\* fetch_polls: every row, in rowid order, with its status parsed.
RECURSIVE RowsById(_)
RowsById(table) ==
    IF table = {} THEN <<>>
    ELSE LET r == CHOOSE x \in table : \A y \in table : x.id <= y.id
         IN <<r>> \o RowsById(table \ {r})

\* A start that keeps the cache of the process that stopped.
fetch_polls_KeepCache(table) == polls

\* fetch_polls: every row of the polls table, its status parsed.
fetch_polls(table) ==
    LET rows == RowsById(table)
    IN [k \in DOMAIN rows |->
          LET st == PollStatus_parse(rows[k].status, rows[k].votes)
          IN [id |-> rows[k].id, message_id |-> rows[k].message_id,
              author_id |-> rows[k].author_id, internal |-> rows[k].internal,
              status |-> st.status, votes |-> st.votes]]

\* The submission timestamp of a row: rows are stamped when inserted, so the
\* order of timestamps among stored rows is the order of their rowids.
Timestamp(r) == r.id

\* pick_suggestion's WHERE clause.
Candidates(table, internal) ==
    {r \in table : r.internal = internal /\ r.approved}

\* pick_suggestion: SELECT ... WHERE internal = ? AND approved = TRUE
\* GROUP BY user_id ORDER BY timestamp LIMIT 1.  The query has no aggregate,
\* so each group is represented by one of its rows, which one is not
\* specified; the representatives are ordered by timestamp and the first is
\* returned.  The set of ids the query may return (empty: no row).
pick_suggestion(table, internal) ==
    LET cand == Candidates(table, internal)
        groups == {r.user_id : r \in cand}
        reps == {f \in [groups -> cand] : \A u \in groups : f[u].user_id = u}
    IN IF cand = {} THEN {}
       ELSE {(CHOOSE r \in Range(f) :
                \A q \in Range(f) : Timestamp(r) <= Timestamp(q)).id : f \in reps}


\* post_announcement(internal): pick a suggestion, then post it.  Its
\* possible outcomes: the store fails, no row is found, the post fails, or
\* the suggestion with the given id is announced.
post_announcement(table, internal) ==
    {[result |-> "store_error", id |-> 0]}
    \cup (IF pick_suggestion(table, internal) = {}
          THEN {[result |-> "not_found", id |-> 0]}
          ELSE UNION {{[result |-> "sink_error", id |-> s],
                       [result |-> "ok", id |-> s]} :
                      s \in pick_suggestion(table, internal)})

\* ------------------------------------------------------------ task records
\* role: what has_role answered to this task ("none": not asked).
IdleH == [pc |-> "idle", kind |-> "none", user |-> 0, poll_index |-> 0,
          poll |-> NoPoll, response |-> "none", role |-> "none"]

IdleSub == [pc |-> "idle", user |-> 0, internal |-> FALSE, message_id |-> 0,
            poll_id |-> 0]

NotShown == [status |-> "none", count |-> 0]

\* Message ids the notification sink may hand out in this model.
MaxMessages == IF MaxPolls > MaxSerialPolls THEN MaxPolls ELSE MaxSerialPolls

\* The generic reply event_handler sends when handle_poll_interaction errs.
GenericError == "There was an error processing your interaction."

\* Positions at which a handler task owns the MutexGuard of Data.polls.
LockedPcs == {"has_role", "fetch_suggestion", "approve_suggestion",
              "update_poll_status", "remove_poll", "fetch_removed",
              "remove_suggestion", "edit_message", "respond"}

\* A mutex that lets a task in while another one owns the guard.
LockFree_Always == TRUE

\* polls.lock().await completes only while no task owns the guard.
LockFree == lock = 0

\* A threshold check that needs one vote more than the threshold.
ReachedThreshold_Strict(n) == n > poll_threshold

\* votes.len() >= data.config.poll_threshold
ReachedThreshold(n) == n >= poll_threshold

\* A revoke branch that lets every user in.
MayRevoke_Anyone(user, p) == TRUE

\* revoke: interaction.user.id == poll.author_id
MayRevoke(user, p) == user = p.author_id

\* An upvote branch that lets the author vote.
MayUpvote_Anyone(user, p) == TRUE

\* upvote: interaction.user.id != poll.author_id
MayUpvote(user, p) == user # p.author_id

\* An insert that reports a new vote every time.
Inserted_Always(user, votes) == TRUE

\* let inserted = votes.insert(interaction.user.id): whether the vote is new
Inserted(user, votes) == user \notin votes

\* A reply that tells the completing upvote apart.
UpvoteReply_Completed(status) ==
    IF status = "Completed" THEN "Poll completed!" ELSE "Vote added!"

\* builder.content("Vote added!"): the reply of an accepted upvote, after
\* the threshold check took either arm.
UpvoteReply(status) == "Vote added!"

\* A veto branch that lets every user in.
MayVeto_Anyone(answer) == TRUE

\* veto: if interaction.user.has_role(.., facilitator_role).await?
MayVeto(answer) == answer = "yes"

\* polls.iter_mut().enumerate().find(message_id == interaction.message.id):
\* the index of the first match, 0 when there is none.
Find(cache, message_id) ==
    LET hits == {k \in DOMAIN cache : cache[k].message_id = message_id}
    IN IF hits = {} THEN 0 ELSE Min(hits)

\* A handler returns Err: the guard is dropped and event_handler will send
\* the generic reply.
Failed == [IdleH EXCEPT !.pc = "failed", !.response = GenericError]

\* A handler has chosen its reply and goes on to create_response.
Reply(rec, text) == [rec EXCEPT !.pc = "respond", !.response = text]

\* The interaction a handler task is started with: who pressed which button
\* of which poll message.
Enter(kind, user, k) ==
    [IdleH EXCEPT !.kind = kind, !.user = user, !.poll_index = k]

\* ---------------------------------------------------------------- Init
InitPolls ==
    /\ poll_threshold \in 1..MaxThreshold
    /\ dbPolls = {}
    /\ dbSuggestions = {}
    /\ polls = <<>>
    /\ lock = 0
    /\ h = [i \in Handlers |-> IdleH]
    /\ sub = IdleSub
    /\ shown = [m \in 1..MaxMessages |-> NotShown]
    /\ nextMsg = 1
    /\ announced = {}

\* The scheduler task before post_announcements runs.  external, internal:
\* what the iteration under way did about each category; previous: what the
\* last completed iteration of this process did about the internal one;
\* loaded: how the flag was loaded at startup.
IdleSched == [pc |-> "off", external |-> "none", internal |-> "none",
              previous |-> "none", loaded |-> "none"]

\* No status value, no row under test.
NoValue == [status |-> "none", votes |-> {}]
NoColumns == [status |-> -1, votes |-> None]
CodecOff == value = NoValue /\ columns = NoColumns /\ parsed = NoValue

\* The scheduler task not started, no flag file.
SchedOff ==
    /\ weekday = 0
    /\ time = 0
    /\ now = 0
    /\ next_date = 0
    /\ biweekly_flag = FALSE
    /\ flagFile = "absent"
    /\ sched = IdleSched
    /\ written = "none"

Init ==
    /\ InitPolls
    /\ SchedOff
    /\ CodecOff

\* ------------------------------------------------- the suggest command
\* create_poll: post the poll message (build_poll_embed with the default
\* status, send_message).
Send(limit) ==
    /\ sub.pc = "idle"
    /\ nextMsg <= limit
    /\ \E user \in Users, internal \in BOOLEAN, ok \in BOOLEAN :
         IF ok
         THEN /\ sub' = [pc |-> "insert_poll", user |-> user,
                         internal |-> internal, message_id |-> nextMsg,
                         poll_id |-> 0]
              /\ shown' = [shown EXCEPT ![nextMsg] = PollStatus_format(DefaultStatus)]
              /\ nextMsg' = nextMsg + 1
         ELSE UNCHANGED <<sub, shown, nextMsg>>
    /\ UNCHANGED <<poll_threshold, dbPolls, dbSuggestions, polls, lock, h, announced>>
    /\ UNCHANGED <<schedVars, codecVars>>

SuggestSend == Send(MaxPolls)

\* Data::insert_poll, first half: database::insert_poll.
SuggestInsertPoll ==
    /\ sub.pc = "insert_poll"
    /\ \E ok \in BOOLEAN :
         IF ok
         THEN /\ dbPolls' = insert_poll(dbPolls, sub.message_id, sub.user, sub.internal)
              /\ sub' = [sub EXCEPT !.pc = "push", !.poll_id = NextRowId(dbPolls)]
         ELSE /\ sub' = IdleSub
              /\ UNCHANGED dbPolls
    /\ UNCHANGED <<poll_threshold, dbSuggestions, polls, lock, h, shown, nextMsg, announced>>
    /\ UNCHANGED <<schedVars, codecVars>>

\* Data::insert_poll, second half: self.polls.lock().await.push(poll).
SuggestPush ==
    /\ sub.pc = "push"
    /\ LockFree
    /\ polls' = Append(polls, Poll_new(sub.poll_id, sub.message_id, sub.user, sub.internal))
    /\ sub' = [sub EXCEPT !.pc = "insert_suggestion"]
    /\ UNCHANGED <<poll_threshold, dbPolls, dbSuggestions, lock, h, shown, nextMsg, announced>>
    /\ UNCHANGED <<schedVars, codecVars>>

\* suggest: insert_suggestion(&suggestion, poll_id), then the reply.
SuggestInsertSuggestion ==
    /\ sub.pc = "insert_suggestion"
    /\ \E ok \in BOOLEAN :
         IF ok
         THEN dbSuggestions' = insert_suggestion(dbSuggestions, sub.user, sub.internal, sub.poll_id)
         ELSE UNCHANGED dbSuggestions
    /\ sub' = IdleSub
    /\ UNCHANGED <<poll_threshold, dbPolls, polls, lock, h, shown, nextMsg, announced>>
    /\ UNCHANGED <<schedVars, codecVars>>


\* ------------------------------------------- handle_poll_interaction
\* The reply of a branch that only reports the poll's status.
StatusReply(kind, status) ==
    IF status = "Completed" THEN "This poll has already been completed!"
    ELSE IF status = "Revoked"
    THEN (IF kind = "upvote" THEN "This poll has been revoked!"
          ELSE IF kind = "revoke" THEN "This poll has already been revoked!"
          ELSE "This poll has been revoked!")
    ELSE (IF kind = "veto" THEN "This poll has already been vetoed!"
          ELSE "This poll has been vetoed!")

\* The handler's unchanged part of the state.
HandlerFrame == /\ UNCHANGED <<poll_threshold, sub, nextMsg, announced>>
                /\ UNCHANGED <<schedVars, codecVars>>

\* "poll:upvote": take the lock, find the poll, check the author and the
\* status, insert the vote; runs up to the first await (fetch_suggestion).
Upvote(i) ==
    /\ h[i].pc = "idle"
    /\ LockFree
    /\ \E user \in Users, m \in 1..(nextMsg - 1) :
         LET k == Find(polls, m)
             rec == Enter("upvote", user, k)
         IN IF k = 0
            THEN /\ h' = [h EXCEPT ![i] = Failed]
                 /\ lock' = 0
                 /\ UNCHANGED polls
            ELSE /\ lock' = i
                 /\ IF ~MayUpvote(user, polls[k])
                    THEN /\ h' = [h EXCEPT ![i] = Reply(rec, "You can't vote on your own poll!")]
                         /\ UNCHANGED polls
                    ELSE IF polls[k].status # "Pending"
                    THEN /\ h' = [h EXCEPT ![i] = Reply(rec, StatusReply("upvote", polls[k].status))]
                         /\ UNCHANGED polls
                    ELSE IF ~Inserted(user, polls[k].votes)
                    THEN /\ h' = [h EXCEPT ![i] = Reply(rec, "You already voted!")]
                         /\ UNCHANGED polls
                    ELSE /\ polls' = [polls EXCEPT ![k].votes = @ \cup {user}]
                         /\ h' = [h EXCEPT ![i] = [rec EXCEPT !.pc = "fetch_suggestion"]]
    /\ UNCHANGED <<dbPolls, dbSuggestions, shown>>
    /\ HandlerFrame

\* upvote: fetch_suggestion(poll.id), then the threshold check that
\* completes the poll; runs up to the next await.
UpvoteFetch(i) ==
    /\ h[i].pc = "fetch_suggestion"
    /\ \E ok \in BOOLEAN :
         LET k == h[i].poll_index
             s == fetch_suggestion(dbSuggestions, polls[k].id)
         IN IF ~ok \/ s = 0
            THEN /\ h' = [h EXCEPT ![i] = Failed]
                 /\ lock' = 0
                 /\ UNCHANGED polls
            ELSE IF ReachedThreshold(Cardinality(polls[k].votes))
            THEN /\ polls' = [polls EXCEPT ![k].status = "Completed", ![k].votes = {}]
                 /\ h' = [h EXCEPT ![i].pc = "approve_suggestion"]
                 /\ UNCHANGED lock
            ELSE /\ h' = [h EXCEPT ![i].pc = "update_poll_status"]
                 /\ UNCHANGED <<polls, lock>>
    /\ UNCHANGED <<dbPolls, dbSuggestions, shown>>
    /\ HandlerFrame

\* upvote: approve_suggestion(poll.id) of a completed poll.
UpvoteApprove(i) ==
    /\ h[i].pc = "approve_suggestion"
    /\ \E ok \in BOOLEAN :
         IF ok
         THEN /\ dbSuggestions' = approve_suggestion(dbSuggestions, polls[h[i].poll_index].id)
              /\ h' = [h EXCEPT ![i].pc = "update_poll_status"]
              /\ UNCHANGED lock
         ELSE /\ h' = [h EXCEPT ![i] = Failed]
              /\ lock' = 0
              /\ UNCHANGED dbSuggestions
    /\ UNCHANGED <<dbPolls, polls, shown>>
    /\ HandlerFrame

\* upvote: update_poll_status(poll.id, &poll.status).
UpvoteUpdate(i) ==
    /\ h[i].pc = "update_poll_status"
    /\ \E ok \in BOOLEAN :
         IF ok
         THEN /\ \E cols \in StatusColumns(polls[h[i].poll_index]) :
                   dbPolls' = update_poll_status(dbPolls, polls[h[i].poll_index].id, cols)
              /\ h' = [h EXCEPT ![i].pc = "edit_message"]
              /\ UNCHANGED lock
         ELSE /\ h' = [h EXCEPT ![i] = Failed]
              /\ lock' = 0
              /\ UNCHANGED dbPolls
    /\ UNCHANGED <<dbSuggestions, polls, shown>>
    /\ HandlerFrame

\* The synchronous part of a permitted revoke or veto: set the status and
\* take the poll out of the cache (poll.status = ..; polls.remove(poll_index)).
Withdraw(i, rec, k, status) ==
    IF polls[k].status \in {"Pending", "Completed"}
    THEN /\ polls' = RemoveAt(polls, k)
         /\ h' = [h EXCEPT ![i] = [rec EXCEPT !.pc = "remove_poll",
                     !.poll = [polls[k] EXCEPT !.status = status, !.votes = {}]]]
    ELSE /\ h' = [h EXCEPT ![i] = Reply(rec, StatusReply(rec.kind, polls[k].status))]
         /\ UNCHANGED polls

\* "poll:revoke": take the lock, find the poll, check the author and the
\* status; runs up to the first await (remove_poll).
Revoke(i) ==
    /\ h[i].pc = "idle"
    /\ LockFree
    /\ \E user \in Users, m \in 1..(nextMsg - 1) :
         LET k == Find(polls, m)
             rec == Enter("revoke", user, k)
         IN IF k = 0
            THEN /\ h' = [h EXCEPT ![i] = Failed]
                 /\ lock' = 0
                 /\ UNCHANGED polls
            ELSE /\ lock' = i
                 /\ IF MayRevoke(user, polls[k])
                    THEN Withdraw(i, rec, k, "Revoked")
                    ELSE /\ h' = [h EXCEPT ![i] = Reply(rec, "Only the author of the poll can revoke it!")]
                         /\ UNCHANGED polls
    /\ UNCHANGED <<dbPolls, dbSuggestions, shown>>
    /\ HandlerFrame

\* "poll:veto": take the lock and find the poll; runs up to has_role.
Veto(i) ==
    /\ h[i].pc = "idle"
    /\ LockFree
    /\ \E user \in Users, m \in 1..(nextMsg - 1) :
         LET k == Find(polls, m)
         IN IF k = 0
            THEN /\ h' = [h EXCEPT ![i] = Failed]
                 /\ lock' = 0
            ELSE /\ h' = [h EXCEPT ![i] = [Enter("veto", user, k) EXCEPT !.pc = "has_role"]]
                 /\ lock' = i
    /\ UNCHANGED <<dbPolls, dbSuggestions, polls, shown>>
    /\ HandlerFrame

\* veto: the answer of has_role(facilitator_role), then the status check.
VetoCheck(i) ==
    /\ h[i].pc = "has_role"
    /\ \E answer \in {"error", "no", "yes"} :
         IF answer = "error"
         THEN /\ h' = [h EXCEPT ![i] = Failed]
              /\ lock' = 0
              /\ UNCHANGED polls
         ELSE IF ~MayVeto(answer)
         THEN /\ h' = [h EXCEPT ![i] = Reply([h[i] EXCEPT !.role = answer],
                                             "Only designated facilitators can veto polls!")]
              /\ UNCHANGED <<polls, lock>>
         ELSE /\ Withdraw(i, [h[i] EXCEPT !.role = answer], h[i].poll_index, "Vetoed")
              /\ UNCHANGED lock
    /\ UNCHANGED <<dbPolls, dbSuggestions, shown>>
    /\ HandlerFrame

\* revoke / veto: remove_poll(poll.id).
RemovePoll(i) ==
    /\ h[i].pc = "remove_poll"
    /\ \E ok \in BOOLEAN :
         IF ok
         THEN /\ dbPolls' = remove_poll(dbPolls, h[i].poll.id)
              /\ h' = [h EXCEPT ![i].pc = "fetch_removed"]
              /\ UNCHANGED lock
         ELSE /\ h' = [h EXCEPT ![i] = Failed]
              /\ lock' = 0
              /\ UNCHANGED dbPolls
    /\ UNCHANGED <<dbSuggestions, polls, shown>>
    /\ HandlerFrame

\* revoke / veto: fetch_suggestion(poll.id).
RemoveFetch(i) ==
    /\ h[i].pc = "fetch_removed"
    /\ \E ok \in BOOLEAN :
         LET s == fetch_suggestion(dbSuggestions, h[i].poll.id)
         IN IF ok /\ s # 0
            THEN /\ h' = [h EXCEPT ![i].pc = "remove_suggestion"]
                 /\ UNCHANGED lock
            ELSE /\ h' = [h EXCEPT ![i] = Failed]
                 /\ lock' = 0
    /\ UNCHANGED <<dbPolls, dbSuggestions, polls, shown>>
    /\ HandlerFrame

\* revoke / veto: data.remove_suggestion(poll.id).
RemoveSuggestion(i) ==
    /\ h[i].pc = "remove_suggestion"
    /\ \E ok \in BOOLEAN :
         IF ok
         THEN /\ dbSuggestions' = Data_remove_suggestion(dbSuggestions, h[i].poll.id)
              /\ h' = [h EXCEPT ![i].pc = "edit_message"]
              /\ UNCHANGED lock
         ELSE /\ h' = [h EXCEPT ![i] = Failed]
              /\ lock' = 0
              /\ UNCHANGED dbSuggestions
    /\ UNCHANGED <<dbPolls, polls, shown>>
    /\ HandlerFrame

\* build_poll_embed and edit_message of the poll message, then the reply
\* of the branch is chosen.
EditMessage(i) ==
    /\ h[i].pc = "edit_message"
    /\ \E ok \in BOOLEAN :
         LET p == IF h[i].kind = "upvote" THEN polls[h[i].poll_index] ELSE h[i].poll
             text == IF h[i].kind = "upvote" THEN UpvoteReply(p.status)
                     ELSE IF h[i].kind = "revoke" THEN "Poll revoked!"
                     ELSE "Poll vetoed!"
         IN IF ok
            THEN /\ shown' = [shown EXCEPT ![p.message_id] = PollStatus_format(p)]
                 /\ h' = [h EXCEPT ![i] = Reply(h[i], text)]
                 /\ UNCHANGED lock
            ELSE /\ h' = [h EXCEPT ![i] = Failed]
                 /\ lock' = 0
                 /\ UNCHANGED shown
    /\ UNCHANGED <<dbPolls, dbSuggestions, polls>>
    /\ HandlerFrame

\* create_response(response), after which the handler returns and the
\* guard is dropped.
Respond(i) ==
    /\ h[i].pc = "respond"
    /\ \E ok \in BOOLEAN :
         h' = [h EXCEPT ![i] = IF ok THEN IdleH ELSE Failed]
    /\ lock' = 0
    /\ UNCHANGED <<dbPolls, dbSuggestions, polls, shown>>
    /\ HandlerFrame

\* event_handler: the generic reply after handle_poll_interaction erred.
HandlerError(i) ==
    /\ h[i].pc = "failed"
    /\ h' = [h EXCEPT ![i] = IdleH]
    /\ UNCHANGED <<dbPolls, dbSuggestions, polls, lock, shown>>
    /\ HandlerFrame

\* ------------------------------------------------ announcements, restart
\* One post_announcement(internal) call of the scheduler, as the store and
\* the announcement channel see it.
Announce(internal) ==
    /\ \E o \in post_announcement(dbSuggestions, internal) :
         announced' = IF o.result = "ok" THEN announced \cup {o.id} ELSE announced
    /\ UNCHANGED <<poll_threshold, dbPolls, dbSuggestions, polls, lock, h, sub,
                   shown, nextMsg>>
    /\ UNCHANGED <<schedVars, codecVars>>

\* The process stops at any point and is started again: Data::new rebuilds
\* the cache from fetch_polls, every task and the mutex start afresh.
Restart ==
    /\ \A k \in DOMAIN fetch_polls(dbPolls) :
         fetch_polls(dbPolls)[k].status \notin {"invalid", "panic"}
    /\ polls' = fetch_polls(dbPolls)
    /\ lock' = 0
    /\ h' = [i \in Handlers |-> IdleH]
    /\ sub' = IdleSub
    /\ UNCHANGED <<poll_threshold, dbPolls, dbSuggestions, shown, nextMsg, announced>>
    /\ UNCHANGED <<schedVars, codecVars>>

Next ==
    \/ SuggestSend
    \/ SuggestInsertPoll
    \/ SuggestPush
    \/ SuggestInsertSuggestion
    \/ \E i \in Handlers : Upvote(i)
    \/ \E i \in Handlers : UpvoteFetch(i)
    \/ \E i \in Handlers : UpvoteApprove(i)
    \/ \E i \in Handlers : UpvoteUpdate(i)
    \/ \E i \in Handlers : Revoke(i)
    \/ \E i \in Handlers : Veto(i)
    \/ \E i \in Handlers : VetoCheck(i)
    \/ \E i \in Handlers : RemovePoll(i)
    \/ \E i \in Handlers : RemoveFetch(i)
    \/ \E i \in Handlers : RemoveSuggestion(i)
    \/ \E i \in Handlers : EditMessage(i)
    \/ \E i \in Handlers : Respond(i)
    \/ \E i \in Handlers : HandlerError(i)
    \/ \E internal \in BOOLEAN : Announce(internal)
    \/ Restart

Spec == Init /\ [][Next]_vars

\* ------------------------------------------------ one task at a time
\* No task other than handler i (0: none) is under way.
Quiet(i) == /\ sub.pc = "idle"
            /\ \A j \in Handlers \ {i} : h[j].pc = "idle"

SerialSuggestSend == Quiet(0) /\ Send(MaxSerialPolls)
SerialUpvote(i) == Quiet(i) /\ Upvote(i)
SerialRevoke(i) == Quiet(i) /\ Revoke(i)
SerialVeto(i) == Quiet(i) /\ Veto(i)

\* The runs of Next in which a task is started only when no other task is
\* under way (so one handler task, task 1, suffices), with more polls.
NextSerial ==
    \/ SerialSuggestSend
    \/ SuggestInsertPoll
    \/ SuggestPush
    \/ SuggestInsertSuggestion
    \/ SerialUpvote(1)
    \/ \E i \in {1} : UpvoteFetch(i)
    \/ \E i \in {1} : UpvoteApprove(i)
    \/ \E i \in {1} : UpvoteUpdate(i)
    \/ SerialRevoke(1)
    \/ SerialVeto(1)
    \/ \E i \in {1} : VetoCheck(i)
    \/ \E i \in {1} : RemovePoll(i)
    \/ \E i \in {1} : RemoveFetch(i)
    \/ \E i \in {1} : RemoveSuggestion(i)
    \/ \E i \in {1} : EditMessage(i)
    \/ \E i \in {1} : Respond(i)
    \/ \E i \in {1} : HandlerError(i)
    \/ \E internal \in BOOLEAN : Announce(internal)
    \/ Restart

\* A deployment whose poll-threshold is 1: the first vote completes a poll.
InitSerial == Init /\ poll_threshold = 1

SpecSerial == InitSerial /\ [][NextSerial]_vars


\* ------------------------------------------------------- the scheduler
\* chrono over the model's clock: an instant is a number of ticks, day 0 is
\* a Monday, weekdays are numbered from Monday (0) to Sunday (6).
DayOf(t) == t \div UnitsPerDay
TimeOf(t) == t % UnitsPerDay
WeekdayOf(t) == DayOf(t) % 7

\* DateTime::with_time(time): the instant's day at the given time.
WithTime(t, tm) == DayOf(t) * UnitsPerDay + tm

\* Weekday::days_since(other)
DaysSince(wd, other) == IF wd < other THEN 7 + wd - other ELSE wd - other

\* next_weekday_at with "now <= today_at": today counts until the end of
\* the announcement instant itself.
next_weekday_at_Inclusive(t, wd, tm) ==
    LET today_at == WithTime(t, tm)
    IN IF WeekdayOf(today_at) = wd /\ t <= today_at
       THEN today_at
       ELSE LET day_offset == DaysSince(wd, WeekdayOf(today_at))
            IN today_at + (day_offset + (IF day_offset = 0 THEN 7 ELSE 0)) * UnitsPerDay

\* next_weekday_at(now, weekday, time)
next_weekday_at(t, wd, tm) ==
    LET today_at == WithTime(t, tm)
    IN IF WeekdayOf(today_at) = wd /\ t < today_at
       THEN today_at
       ELSE LET day_offset == DaysSince(wd, WeekdayOf(today_at))
            IN today_at + (day_offset + (IF day_offset = 0 THEN 7 ELSE 0)) * UnitsPerDay

\* The flag decoded from the byte read at startup: biweekly_flag[0] % 2 == 0.
DecodeFlag(byte) == byte % 2 = 0

\* The byte fs::write stores for the flag: biweekly_flag as u8.
EncodeFlag(flag) == IF flag THEN 1 ELSE 0

\* A loop that gives up at the first error.
AfterAttempt_Abort(next, result) ==
    IF result \in {"store_error", "not_found", "sink_error", "write_error"}
    THEN "stopped" ELSE next

\* if let Err(e) = .. { error!(..) }: the error of an announcement or of the
\* flag write is logged, and the loop goes on to its next position.
AfterAttempt(next, result) == next

\* A flip that sets the flag instead of toggling it (|= for ^=).
FlipFlag_Set(flag) == TRUE

\* biweekly_flag ^= true
FlipFlag(flag) == ~flag

MaxNow == MaxWeeks * 7 * UnitsPerDay

\* The scheduler's unchanged part of the state.
SchedFrame == UNCHANGED <<poll_threshold, dbPolls, dbSuggestions, polls, lock,
                          h, sub, shown, nextMsg, weekday, time, codecVars>>

\* Any configured weekday and time, any instant of the first week, a fresh
\* store and no flag file.
InitSched ==
    /\ InitPolls
    /\ weekday \in 0..6
    /\ time \in 0..(UnitsPerDay - 1)
    /\ now \in 0..(7 * UnitsPerDay - 1)
    /\ next_date = 0
    /\ biweekly_flag = FALSE
    /\ flagFile = "absent"
    /\ sched = IdleSched
    /\ written = "none"
    /\ CodecOff

\* post_announcements, before the loop: open biweekly_flag.bin (created
\* when missing), read one byte into [0], decode the flag.
SchedStart ==
    /\ sched.pc = "off"
    /\ \E opened \in BOOLEAN :
         LET file == IF flagFile = "absent" THEN <<>> ELSE flagFile
             byte == IF opened /\ Len(file) >= 1 THEN file[1] ELSE 0
         IN /\ flagFile' = IF opened THEN file ELSE flagFile
            /\ biweekly_flag' = DecodeFlag(byte)
            /\ sched' = [IdleSched EXCEPT !.pc = "loop",
                           !.loaded = IF ~opened THEN "open_failed"
                                      ELSE IF Len(file) >= 1 THEN "read"
                                      ELSE "empty"]
    /\ UNCHANGED <<now, next_date, announced, written>>
    /\ SchedFrame

\* The top of the loop: now = Utc::now(); next_date = next_weekday_at(..).
SchedCompute ==
    /\ sched.pc = "loop"
    /\ now < MaxNow
    /\ \E d \in 0..MaxDelay :
         /\ now' = now + d
         /\ next_date' = next_weekday_at(now + d, weekday, time)
    /\ sched' = [sched EXCEPT !.pc = "sleep"]
    /\ UNCHANGED <<biweekly_flag, flagFile, announced, written>>
    /\ SchedFrame

\* sleep((next_date - now).to_std().unwrap()): to_std fails on a negative
\* duration and the task panics; otherwise it wakes at next_date.
SchedSleep ==
    /\ sched.pc = "sleep"
    /\ IF next_date - now < 0
       THEN /\ sched' = [sched EXCEPT !.pc = "panicked"]
            /\ UNCHANGED now
       ELSE /\ sched' = [sched EXCEPT !.pc = "external"]
            /\ now' = next_date
    /\ UNCHANGED <<next_date, biweekly_flag, flagFile, announced, written>>
    /\ SchedFrame

\* data.post_announcement(&ctx, false); an error is logged.
SchedExternal ==
    /\ sched.pc = "external"
    /\ \E o \in post_announcement(dbSuggestions, FALSE) :
         /\ announced' = IF o.result = "ok" THEN announced \cup {o.id} ELSE announced
         /\ sched' = [sched EXCEPT !.pc = AfterAttempt("internal", o.result),
                        !.external = IF o.result = "ok" THEN "ok" ELSE "failed"]
    /\ UNCHANGED <<now, next_date, biweekly_flag, flagFile, written>>
    /\ SchedFrame

\* if biweekly_flag { data.post_announcement(&ctx, true) }
SchedInternal ==
    /\ sched.pc = "internal"
    /\ IF biweekly_flag
       THEN \E o \in post_announcement(dbSuggestions, TRUE) :
              /\ announced' = IF o.result = "ok" THEN announced \cup {o.id} ELSE announced
              /\ sched' = [sched EXCEPT !.pc = AfterAttempt("flip", o.result),
                                        !.internal = "attempted"]
       ELSE /\ sched' = [sched EXCEPT !.pc = "flip", !.internal = "skipped"]
            /\ UNCHANGED announced
    /\ UNCHANGED <<now, next_date, biweekly_flag, flagFile, written>>
    /\ SchedFrame

\* biweekly_flag ^= true; fs::write("biweekly_flag.bin", [flag as u8]); a
\* failed write is logged and may leave the old file or a truncated one.
SchedFlip ==
    /\ sched.pc = "flip"
    /\ biweekly_flag' = FlipFlag(biweekly_flag)
    /\ \E ok \in BOOLEAN :
         IF ok
         THEN /\ flagFile' = <<EncodeFlag(FlipFlag(biweekly_flag))>>
              /\ written' = IF FlipFlag(biweekly_flag) THEN "true" ELSE "false"
         ELSE /\ flagFile' \in {flagFile, <<>>}
              /\ written' = "failed"
    /\ sched' = [sched EXCEPT !.pc = AfterAttempt("loop", IF written' = "failed"
                                                          THEN "write_error" ELSE "ok"),
                              !.previous = sched.internal,
                              !.external = "none", !.internal = "none"]
    /\ UNCHANGED <<now, next_date, announced>>
    /\ SchedFrame

\* The process stops at any point of the scheduler and is started again.
SchedRestart ==
    /\ sched.pc # "off"
    /\ sched' = IdleSched
    /\ biweekly_flag' = FALSE
    /\ next_date' = 0
    /\ UNCHANGED <<now, flagFile, announced, written>>
    /\ SchedFrame

NextSched ==
    \/ SchedStart
    \/ SchedCompute
    \/ SchedSleep
    \/ SchedExternal
    \/ SchedInternal
    \/ SchedFlip
    \/ SchedRestart

SpecSched == InitSched /\ [][NextSched]_vars

\* ================================================================ codec
\* update_poll_status and PollStatus::parse as functions: a status value is
\* written to the (status, votes) columns and the columns are parsed back;
\* and rows that update_poll_status did not write are parsed.

\* The ids of the vote sets under test: one and two digit ids.
CodecVoters == Users \cup {MaxUsers + 9, MaxUsers + 18}

\* Every PollStatus value over CodecVoters.
CodecValues ==
    {[status |-> "Pending", votes |-> V] : V \in SUBSET CodecVoters}
      \cup {[status |-> st, votes |-> {}] : st \in {"Completed", "Revoked", "Vetoed"}}

\* The strings of at most MaxRowLen characters of a votes column.
RowChars == {"1", "2", ","}
RowStrings == UNION {[1..n -> RowChars] : n \in 0..MaxRowLen}

\* The rows of the poll table: any code up to MaxCode, with or without a
\* votes column.
CodecRows ==
    {[status |-> c, votes |-> v] :
        c \in 0..MaxCode, v \in {None} \cup {Some(str) : str \in RowStrings}}

InitCodec ==
    /\ InitPolls
    /\ poll_threshold = 1
    /\ SchedOff
    /\ value \in CodecValues
    /\ columns = NoColumns
    /\ parsed = NoValue

CodecFrame == UNCHANGED <<pollVars, schedVars>>

\* update_poll_status: the match on the status, votes in iteration order.
CodecWrite ==
    /\ value # NoValue
    /\ columns = NoColumns
    /\ columns' \in StatusColumns(value)
    /\ UNCHANGED <<value, parsed>>
    /\ CodecFrame

\* A row that was not written by update_poll_status.
CodecRow ==
    /\ columns = NoColumns
    /\ columns' \in CodecRows
    /\ value' = NoValue
    /\ UNCHANGED parsed
    /\ CodecFrame

\* fetch_polls: PollStatus::parse(row.status, row.votes).
CodecParse ==
    /\ columns # NoColumns
    /\ parsed = NoValue
    /\ parsed' = PollStatus_parse(columns.status, columns.votes)
    /\ UNCHANGED <<value, columns>>
    /\ CodecFrame

\* The next status value.
CodecReset ==
    /\ parsed # NoValue
    /\ value' \in CodecValues
    /\ columns' = NoColumns
    /\ parsed' = NoValue
    /\ CodecFrame

NextCodec ==
    \/ CodecWrite
    \/ CodecRow
    \/ CodecParse
    \/ CodecReset

SpecCodec == InitCodec /\ [][NextCodec]_vars


\* =================================================================
\* Properties of the upvote path
\* =================================================================

\* The steps of handler task i on the upvote path.
UpvoteStep(i) ==
    \/ Upvote(i)
    \/ UpvoteFetch(i)
    \/ UpvoteApprove(i)
    \/ UpvoteUpdate(i)
    \/ (h[i].kind = "upvote" /\ (EditMessage(i) \/ Respond(i)))

\* What one step may do to a cached poll p, q being the poll after it: a
\* Pending poll keeps its votes and gains at most one, or is completed with
\* the threshold reached; a Completed poll stays as it is.
CountsUp(p, q) ==
    /\ p.status = "Pending" =>
         \/ /\ q.status = "Pending"
            /\ p.votes \subseteq q.votes
            /\ Cardinality(q.votes) <= Cardinality(p.votes) + 1
         \/ /\ q.status = "Completed"
            /\ Cardinality(p.votes) >= poll_threshold
    /\ p.status = "Completed" => q = p

C2_LockSerializesMutations ==
    /\ \A i \in Handlers : (h[i].pc \in LockedPcs) <=> (lock = i)
    /\ \A i, j \in Handlers :
         (h[i].pc \in LockedPcs /\ h[j].pc \in LockedPcs) => i = j
    /\ \A i \in Handlers :
         (h[i].kind = "upvote" /\ h[i].pc \in LockedPcs) =>
           /\ h[i].poll_index \in DOMAIN polls
           /\ LET p == polls[h[i].poll_index]
              IN /\ h[i].pc = "fetch_suggestion" =>
                      (p.status = "Pending" /\ h[i].user \in p.votes)
                 /\ h[i].pc = "approve_suggestion" => p.status = "Completed"
                 /\ (\/ h[i].pc \in {"update_poll_status", "edit_message"}
                     \/ (h[i].pc = "respond" /\ h[i].response = "Vote added!")) =>
                      \/ p.status = "Completed"
                      \/ /\ p.status = "Pending"
                         /\ h[i].user \in p.votes
                         /\ Cardinality(p.votes) < poll_threshold

\* C2 witness: the second of two voters owns the guard with its vote
\* inserted next to the first one's, before the threshold check.
C2_Witness ==
    \E i \in Handlers :
      /\ lock = i
      /\ h[i].kind = "upvote"
      /\ h[i].pc = "fetch_suggestion"
      /\ Cardinality(polls[h[i].poll_index].votes) = 2

\* =================================================================
\* Properties of the announcements' picker
\* =================================================================

\* C3: a suggestion that was announced is no longer in the store.
C3_PickConsumes ==
    \A s \in announced : \A r \in dbSuggestions : r.id # s

\* The approved suggestions of a category that no other one precedes.
Earliest(table, internal) ==
    {r \in Candidates(table, internal) :
       \A c \in Candidates(table, internal) : Timestamp(r) <= Timestamp(c)}

\* C4: whatever the store holds, the picker finds no row exactly when no
\* approved suggestion of the category exists, and every row it may return
\* is an approved suggestion of the category with the earliest timestamp.
C4_PickEarliest ==
    \A internal \in BOOLEAN :
      /\ (pick_suggestion(dbSuggestions, internal) = {})
           <=> (Candidates(dbSuggestions, internal) = {})
      /\ \A s \in pick_suggestion(dbSuggestions, internal) :
           \E r \in Earliest(dbSuggestions, internal) : r.id = s

\* =================================================================
\* Properties of the removal of a poll's suggestion
\* =================================================================

\* C5: once a revoke or a veto is past its remove_suggestion call, the store
\* holds no suggestion attached to the removed poll.
C5_RemovesOwnSuggestion ==
    \A i \in Handlers :
      (/\ h[i].kind \in {"revoke", "veto"}
       /\ \/ h[i].pc = "edit_message"
          \/ (h[i].pc = "respond" /\ h[i].response \in {"Poll revoked!", "Poll vetoed!"})) =>
        \A r \in dbSuggestions : r.poll_id # h[i].poll.id

\* =================================================================
\* Properties of revoke
\* =================================================================

\* The replies with which revoke refuses.
RevokeRejections == {"Only the author of the poll can revoke it!",
                     "This poll has already been revoked!",
                     "This poll has been vetoed!"}

\* C10: a revoke that found its poll sets the status to Revoked (and takes
\* the poll out of the cache) when the actor is the poll's author and the
\* status is Pending or Completed; for every other actor and status it
\* leaves the cache, the store and the poll message alone and answers with a
\* refusal, and so does the step that delivers the refusal.
C10_RevokeOnlyByAuthor ==
    [][\A i \in Handlers :
         /\ (Revoke(i) /\ h'[i].pc # "failed") =>
              LET k == h'[i].poll_index
                  p == polls[k]
              IN IF h'[i].user = p.author_id /\ p.status \in {"Pending", "Completed"}
                 THEN /\ h'[i].pc = "remove_poll"
                      /\ h'[i].poll.id = p.id
                      /\ h'[i].poll.status = "Revoked"
                      /\ polls' = RemoveAt(polls, k)
                 ELSE /\ h'[i].pc = "respond"
                      /\ h'[i].response \in RevokeRejections
                      /\ UNCHANGED <<polls, dbPolls, dbSuggestions, shown>>
         /\ (/\ h[i].kind = "revoke"
             /\ h[i].response \in RevokeRejections
             /\ Respond(i)) =>
              UNCHANGED <<polls, dbPolls, dbSuggestions, shown>>
      ]_vars

\* C10 witness: a user who is not the author was refused the revoke of a
\* Completed poll.
C10_Witness ==
    \E i \in Handlers :
      /\ h[i].kind = "revoke"
      /\ h[i].pc = "respond"
      /\ h[i].response = "Only the author of the poll can revoke it!"
      /\ polls[h[i].poll_index].status = "Completed"


\* =================================================================
\* Properties of the announcement scheduler
\* =================================================================

\* C6: an iteration that has reached its flag flip has attempted the external
\* announcement, has attempted the internal one exactly when the flag was
\* set, and did about the internal one the opposite of what the iteration
\* before it (of the same process) did.
C6_InternalEveryOther ==
    sched.pc = "flip" =>
      /\ sched.external \in {"ok", "failed"}
      /\ sched.internal \in {"attempted", "skipped"}
      /\ (sched.internal = "attempted") <=> biweekly_flag
      /\ sched.previous # "none" => sched.previous # sched.internal

\* C6 witness: an iteration that skipped the internal announcement after one
\* that attempted it.
C6_Witness ==
    /\ sched.pc = "flip"
    /\ sched.previous = "attempted"
    /\ sched.internal = "skipped"

\* C7: a process that starts after a successful flag write, and reads the
\* file, holds the flag value that was written.
C7_FlagSurvivesRestart ==
    (/\ sched.pc = "loop"
     /\ sched.previous = "none"
     /\ sched.loaded = "read"
     /\ written \in {"true", "false"}) =>
      (biweekly_flag <=> (written = "true"))

\* C8: a process that starts without a flag file, or with an empty one,
\* holds a false flag, and its first iteration skips the internal
\* announcement.
C8_AbsentFlagStartsFalse ==
    (sched.previous = "none" /\ sched.loaded = "empty") =>
      /\ sched.pc = "loop" => ~biweekly_flag
      /\ sched.pc = "flip" => sched.internal = "skipped"

\* C9: the instant the scheduler sleeps until is the earliest one strictly
\* after now that falls on the configured weekday at the configured time:
\* the same day when today is that weekday and the time is still ahead, 7
\* days ahead when today is that weekday and the time has come or passed, 1
\* to 6 days ahead otherwise; it is at most 7 days away, and the conversion
\* of the sleep duration never fails.
C9_NextWeekdayAt ==
    /\ sched.pc # "panicked"
    /\ sched.pc = "sleep" =>
         /\ next_date > now
         /\ next_date - now <= 7 * UnitsPerDay
         /\ WeekdayOf(next_date) = weekday
         /\ TimeOf(next_date) = time
         /\ \A t \in (now + 1)..(next_date - 1) :
              ~(WeekdayOf(t) = weekday /\ TimeOf(t) = time)
         /\ (WeekdayOf(now) = weekday /\ TimeOf(now) < time) =>
              DayOf(next_date) = DayOf(now)
         /\ (WeekdayOf(now) = weekday /\ TimeOf(now) >= time) =>
              DayOf(next_date) = DayOf(now) + 7
         /\ WeekdayOf(now) # weekday =>
              (DayOf(next_date) - DayOf(now)) \in 1..6

\* C9 witness: now is exactly the configured instant of the configured
\* weekday, and the scheduler sleeps a whole week.
C9_Witness ==
    /\ sched.pc = "sleep"
    /\ WeekdayOf(now) = weekday
    /\ TimeOf(now) = time
    /\ next_date = now + 7 * UnitsPerDay


\* =================================================================
\* Properties of veto
\* =================================================================

\* The steps of handler task i on the veto path.
VetoStep(i) ==
    \/ Veto(i)
    \/ VetoCheck(i)
    \/ (h[i].kind = "veto" /\
          (RemovePoll(i) \/ RemoveFetch(i) \/ RemoveSuggestion(i)
             \/ EditMessage(i) \/ Respond(i)))

\* C11: the has_role answer decides a veto: answered "yes" on a Pending or
\* Completed poll, the poll is taken out of the cache with the status Vetoed;
\* answered "no", the actor is refused, and no step of a veto whose actor
\* was not answered "yes" changes the cache, the store or a poll message,
\* whoever the poll's author is.
C11_VetoOnlyByFacilitator ==
    [][\A i \in Handlers :
         /\ (VetoCheck(i) /\ h'[i].pc # "failed") =>
              LET k == h[i].poll_index
                  p == polls[k]
              IN IF h'[i].role = "yes" /\ p.status \in {"Pending", "Completed"}
                 THEN /\ h'[i].pc = "remove_poll"
                      /\ h'[i].poll.id = p.id
                      /\ h'[i].poll.status = "Vetoed"
                      /\ polls' = RemoveAt(polls, k)
                 ELSE /\ h'[i].role = "no"
                      /\ h'[i].pc = "respond"
                      /\ h'[i].response = "Only designated facilitators can veto polls!"
                      /\ UNCHANGED <<polls, dbPolls, dbSuggestions, shown>>
         /\ (VetoStep(i) /\ h[i].role # "yes" /\ h'[i].role # "yes") =>
              UNCHANGED <<polls, dbPolls, dbSuggestions, shown>>
      ]_vars

\* C11 witness: the author of a poll, who is no facilitator, was refused the
\* veto of the own poll.
C11_Witness ==
    \E i \in Handlers :
      /\ h[i].kind = "veto"
      /\ h[i].role = "no"
      /\ h[i].pc = "respond"
      /\ h[i].user = polls[h[i].poll_index].author_id


\* =================================================================
\* Properties of interactions with withdrawn polls
\* =================================================================

\* The replies that report a terminal status.
TerminalReplies == {"This poll has been revoked!",
                    "This poll has already been revoked!",
                    "This poll has been vetoed!",
                    "This poll has already been vetoed!"}

\* C12: when every poll message posted so far shows Revoked or Vetoed, an
\* upvote, a revoke or a veto (whichever message it is about) does not fail:
\* it changes nothing, and what it replies is a report of the terminal status.
C12_WithdrawnPollRejects ==
    [][\A i \in Handlers :
         (/\ Upvote(i) \/ Revoke(i) \/ Veto(i)
          /\ nextMsg > 1
          /\ \A m \in 1..(nextMsg - 1) : shown[m].status \in {"Revoked", "Vetoed"}) =>
           /\ h'[i].pc # "failed"
           /\ h'[i].pc = "respond" => h'[i].response \in TerminalReplies
           /\ UNCHANGED <<polls, dbPolls, dbSuggestions, shown>>
      ]_vars


\* =================================================================
\* Properties of refused upvotes
\* =================================================================

\* C13: an upvote by the author of the poll it is about is answered "You
\* can't vote on your own poll!" whatever the poll's status, and neither the
\* step that refuses it nor the one that delivers the reply changes the
\* cache, the store or a poll message.
C13_SelfVoteChangesNothing ==
    [][\A i \in Handlers :
         /\ (/\ Upvote(i)
             /\ h'[i].pc # "failed"
             /\ h'[i].user = polls[h'[i].poll_index].author_id) =>
              /\ h'[i].pc = "respond"
              /\ h'[i].response = "You can't vote on your own poll!"
              /\ UNCHANGED <<polls, dbPolls, dbSuggestions, shown>>
         /\ (/\ h[i].response = "You can't vote on your own poll!"
             /\ Respond(i)) =>
              UNCHANGED <<polls, dbPolls, dbSuggestions, shown>>
      ]_vars

\* C13 witness: the author of a Completed poll was refused the upvote.
C13_Witness ==
    \E i \in Handlers :
      /\ h[i].pc = "respond"
      /\ h[i].response = "You can't vote on your own poll!"
      /\ polls[h[i].poll_index].status = "Completed"


\* C14: an upvote by a voter who is already in the vote set of a Pending poll
\* is answered "You already voted!"; neither the step that finds the vote
\* present nor the one that delivers the reply changes the cache (so the vote
\* set and the status stay), the store or a poll message.
C14_RepeatedVoteIsNoOp ==
    [][\A i \in Handlers :
         /\ (/\ Upvote(i)
             /\ h'[i].pc # "failed"
             /\ h'[i].user # polls[h'[i].poll_index].author_id
             /\ polls[h'[i].poll_index].status = "Pending"
             /\ h'[i].user \in polls[h'[i].poll_index].votes) =>
              /\ h'[i].pc = "respond"
              /\ h'[i].response = "You already voted!"
              /\ UNCHANGED <<polls, dbPolls, dbSuggestions, shown>>
         /\ (h[i].response = "You already voted!" /\ Respond(i)) =>
              UNCHANGED <<polls, dbPolls, dbSuggestions, shown>>
      ]_vars

\* C14 witness: a voter counted in a Pending poll has voted again.
C14_Witness ==
    \E i \in Handlers :
      /\ h[i].pc = "respond"
      /\ h[i].response = "You already voted!"
      /\ polls[h[i].poll_index].status = "Pending"
      /\ h[i].user \in polls[h[i].poll_index].votes


\* =================================================================
\* Properties of the reply of an accepted upvote
\* =================================================================

\* The replies with which an upvote is refused.
UpvoteRefusals == {"You can't vote on your own poll!", "You already voted!",
                   "This poll has already been completed!",
                   "This poll has been revoked!", "This poll has been vetoed!"}

\* An upvote of task i was accepted and is about to be answered.
AcceptedUpvote(i) ==
    /\ h[i].kind = "upvote"
    /\ h[i].pc = "respond"
    /\ h[i].response \notin UpvoteRefusals

\* C15 as stated: the accepted upvote that completed the poll is not
\* answered "Vote added!", the reply of one that left the poll Pending.
C15_CompletingUpvoteRepliesApart ==
    \A i \in Handlers :
      (AcceptedUpvote(i) /\ polls[h[i].poll_index].status = "Completed") =>
        h[i].response # "Vote added!"

\* C15 amended: every accepted upvote is answered "Vote added!", the one that
\* completed the poll as the one that left it Pending; what tells them apart
\* is the poll message, which by then shows the poll's status: Completed, or
\* Pending with the vote count.
C15_AcceptedUpvoteRepliesVoteAdded ==
    \A i \in Handlers :
      AcceptedUpvote(i) =>
        /\ h[i].response = "Vote added!"
        /\ polls[h[i].poll_index].status \in {"Pending", "Completed"}
        /\ shown[polls[h[i].poll_index].message_id]
             = PollStatus_format(polls[h[i].poll_index])

\* C15 witness: with a threshold of 2, the second voter's upvote completed
\* the poll and is answered "Vote added!".
C15_Witness ==
    \E i \in Handlers :
      /\ AcceptedUpvote(i)
      /\ poll_threshold = 2
      /\ polls[h[i].poll_index].status = "Completed"
      /\ shown[polls[h[i].poll_index].message_id].status = "Completed"


\* =================================================================
\* Properties of the cache and the store taken together
\* =================================================================

\* C16: no step takes a poll backwards, in the cache or in the store: a
\* cached poll that is Completed is not Pending after the step, one that is
\* Revoked or Vetoed keeps its status, and the same holds of the status code
\* of a store row (1 Completed, 2 Revoked, 3 Vetoed).
C16_StatusMovesForward ==
    [][/\ \A k \in DOMAIN polls : \A j \in DOMAIN polls' :
            polls[k].message_id = polls'[j].message_id =>
              /\ polls[k].status = "Completed" => polls'[j].status # "Pending"
              /\ polls[k].status \in {"Revoked", "Vetoed"} =>
                   polls'[j].status = polls[k].status
       /\ \A r \in dbPolls : \A q \in dbPolls' :
            r.message_id = q.message_id =>
              /\ r.status = 1 => q.status # 0
              /\ r.status \in {2, 3} => q.status = r.status
      ]_vars


\* The cache and the store hold the same polls, each with the same status
\* and the same vote set.
CacheAgreesWithStore == Range(polls) = Range(fetch_polls(dbPolls))

\* The replies of an upvote, a revoke or a veto that went through.
SuccessReplies == {"Vote added!", "Poll revoked!", "Poll vetoed!"}

\* C17: when a submission has stored its suggestion and replied, and when an
\* upvote, a revoke or a veto that went through has delivered its reply, the
\* cache and the store agree.
C17_CacheAgreesAfterSuccess ==
    [][/\ (SuggestInsertSuggestion /\ dbSuggestions' # dbSuggestions) =>
            CacheAgreesWithStore'
       /\ \A i \in Handlers :
            (/\ h[i].response \in SuccessReplies
             /\ Respond(i)
             /\ h'[i].pc = "idle") =>
              CacheAgreesWithStore'
      ]_vars


\* The positions at which a handler awaits a store call.
StoreCallPcs == {"fetch_suggestion", "approve_suggestion", "update_poll_status",
                 "remove_poll", "fetch_removed", "remove_suggestion"}

\* C18: when a store call of an upvote, a revoke or a veto fails, the failed
\* operation leaves the cache and the store in agreement: the cached poll is
\* there with the status and the votes of its store row.
C18_StoreFailureKeepsAgreement ==
    [][\A i \in Handlers :
         (h[i].pc \in StoreCallPcs /\ h'[i].pc = "failed") =>
           CacheAgreesWithStore'
      ]_vars


\* =================================================================
\* Properties of the poll message
\* =================================================================

\* The store rows of the poll shown in message m.
RowsOf(m) == {r \in dbPolls : r.message_id = m}

\* What message m shows is not ahead of the store: a vote count shown is
\* reached by the stored votes (or the stored poll is Completed), Completed
\* is shown of a stored Completed poll, Revoked and Vetoed of a deleted one.
NotAhead(m) ==
    \A r \in RowsOf(m) :
      /\ shown[m].status = "Pending" =>
           \/ r.status = 1
           \/ r.status = 0 /\ shown[m].count
                                <= Cardinality(PollStatus_parse(r.status, r.votes).votes)
      /\ shown[m].status = "Completed" => r.status = 1
      /\ shown[m].status \notin {"Revoked", "Vetoed"}

\* C19: no poll message is ahead of the store; an edit by an upvote shows
\* the status its store row holds, an edit by a revoke or a veto shows the
\* status of a poll whose row is deleted; and a handler whose store call
\* failed, or that ended in an error, edits no message.
C19_EditAfterPersist ==
    /\ [](\A m \in 1..(nextMsg - 1) : NotAhead(m))
    /\ [][\A i \in Handlers :
            /\ (EditMessage(i) /\ shown' # shown) =>
                 LET m == IF h[i].kind = "upvote"
                          THEN polls[h[i].poll_index].message_id
                          ELSE h[i].poll.message_id
                 IN IF h[i].kind = "upvote"
                    THEN \E r \in RowsOf(m) :
                           shown'[m] = PollStatus_format(PollStatus_parse(r.status, r.votes))
                    ELSE /\ RowsOf(m) = {}
                         /\ shown'[m].status = h[i].poll.status
            /\ (h[i].pc \in StoreCallPcs /\ h'[i].pc = "failed") => shown' = shown
            /\ HandlerError(i) => shown' = shown
       ]_vars

\* C19 witness: a store call of an upvote failed after the vote entered the
\* cache; the message still shows no vote, as the store row does.
C19_Witness ==
    \E i \in Handlers : \E k \in DOMAIN polls :
      /\ h[i].pc = "failed"
      /\ polls[k].votes # {}
      /\ shown[polls[k].message_id] = [status |-> "Pending", count |-> 0]
      /\ \E r \in RowsOf(polls[k].message_id) : r.status = 0 /\ ~r.votes.some


\* =================================================================
\* Properties of the scheduler under failures
\* =================================================================

\* The positions of a scheduler that is off or in its loop.
SchedPcs == {"off", "loop", "sleep", "external", "internal", "flip"}

\* C20: the scheduler never leaves its loop; after the external attempt,
\* failed or not, the iteration is at the internal one, which is attempted
\* whenever the flag is set; and an iteration that is over has flipped the
\* flag, whether or not its announcements and its flag write failed.
C20_FailuresAreIsolated ==
    /\ sched.pc \in SchedPcs
    /\ sched.pc = "internal" => sched.external \in {"ok", "failed"}
    /\ sched.pc = "flip" =>
         /\ sched.external \in {"ok", "failed"}
         /\ biweekly_flag => sched.internal = "attempted"
    /\ (sched.pc \in {"loop", "sleep"} /\ sched.previous # "none") =>
         (biweekly_flag <=> (sched.previous = "skipped"))

\* C20 witness: after an iteration whose external announcement failed and
\* whose flag write failed, the flag is flipped and the next iteration is
\* under way.
C20_Witness ==
    /\ sched.pc = "sleep"
    /\ sched.previous = "attempted"
    /\ written = "failed"
    /\ ~biweekly_flag
    /\ announced = {}

\* ------------------------------------------------------------------ C21
\* C21: a status written by update_poll_status parses back to itself: a
\* Pending vote set (the empty one too) in whatever order its votes were
\* written, and Completed, Revoked, Vetoed, which are written as codes 1, 2,
\* 3 with no votes column; a row whose code is above 3, or whose code is 1,
\* 2 or 3 with a votes column, parses to Err("invalid poll status").
TerminalCode(st) ==
    IF st = "Completed" THEN 1 ELSE IF st = "Revoked" THEN 2 ELSE 3

C21_StatusRoundTrips ==
    /\ (value # NoValue /\ parsed # NoValue) => parsed = value
    /\ (value # NoValue /\ value.status # "Pending" /\ columns # NoColumns)
         => columns = [status |-> TerminalCode(value.status), votes |-> None]
    /\ (value = NoValue /\ parsed # NoValue
          /\ (columns.status \notin 0..3
               \/ (columns.status # 0 /\ columns.votes.some)))
         => parsed.status = "invalid"

\* A vote set with a two digit id and another id has made the round trip.
C21_Witness ==
    /\ value.status = "Pending"
    /\ MaxUsers + 9 \in value.votes
    /\ Cardinality(value.votes) >= 2
    /\ columns.votes.some
    /\ parsed = value

\* ------------------------------------------------------------------ C22
\* C22: the vote set of a Pending poll never contains the poll's author,
\* neither in the cache nor in the votes column of the poll's row as
\* fetch_polls reads it.
C22_AuthorNeverInVotes ==
    /\ \A k \in DOMAIN polls :
         polls[k].status = "Pending" => polls[k].author_id \notin polls[k].votes
    /\ \A k \in DOMAIN fetch_polls(dbPolls) :
         fetch_polls(dbPolls)[k].status = "Pending" =>
           fetch_polls(dbPolls)[k].author_id \notin fetch_polls(dbPolls)[k].votes

\* C22 witness: the author's upvote was refused while the poll is Pending
\* with a vote in the cache and in the store.
C22_Witness ==
    \E i \in Handlers :
      /\ h[i].pc = "respond"
      /\ h[i].response = "You can't vote on your own poll!"
      /\ polls[h[i].poll_index].status = "Pending"
      /\ polls[h[i].poll_index].votes # {}
      /\ \E k \in DOMAIN fetch_polls(dbPolls) :
           /\ fetch_polls(dbPolls)[k].id = polls[h[i].poll_index].id
           /\ fetch_polls(dbPolls)[k].votes # {}

\* ------------------------------------------------------------------ C23
\* C23: when the suggest command returns after the poll message was posted,
\* with the reply or with an error from insert_poll or insert_suggestion,
\* the store holds a poll for that message exactly if it holds a suggestion
\* of that poll, and the cache holds the poll only if the store holds both.
C23_PollAndSuggestionTogether ==
    [][((SuggestInsertPoll \/ SuggestInsertSuggestion) /\ sub'.pc = "idle") =>
         LET stored == {r \in dbPolls' : r.message_id = sub.message_id}
             suggested == {r \in stored :
                             \E sg \in dbSuggestions' : sg.poll_id = r.id}
             cached == {k \in DOMAIN polls' :
                          polls'[k].message_id = sub.message_id}
         IN /\ suggested = stored
            /\ (\E sg \in dbSuggestions' : sg.poll_id = sub.poll_id) => stored # {}
            /\ cached # {} => suggested # {}
      ]_vars

C25_StalledEditDelaysOnlyItself ==
    \A i \in Handlers :
      (/\ h[i].pc = "edit_message"
       /\ h[i].kind = "upvote"
       /\ \E q \in DOMAIN polls : q # h[i].poll_index) =>
        /\ \A j \in Handlers \ {i} : h[j].pc = "idle" => ENABLED Upvote(j)
        /\ sub.pc = "push" => ENABLED SuggestPush

\* ------------------------------------------------------------------ C26
\* The outcome messages of handle_poll_interaction.
OutcomeMessages ==
    SuccessReplies \cup UpvoteRefusals \cup RevokeRejections \cup TerminalReplies
      \cup {"Only designated facilitators can veto polls!"}

\* C26: a handler that found its poll in the cache answers with one of the
\* outcome messages, and returns an error only when a store or sink call
\* fails: when it asks the store for the poll's suggestion (upvote: after
\* inserting the vote; revoke, veto: after remove_poll), the suggestion is
\* there, so that fetch_suggestion errs only if the store does.
C26_VoteTransitionTotal ==
    \A i \in Handlers :
      /\ h[i].pc = "respond" => h[i].response \in OutcomeMessages
      /\ h[i].pc = "fetch_suggestion" =>
           fetch_suggestion(dbSuggestions, polls[h[i].poll_index].id) # 0
      /\ h[i].pc = "fetch_removed" =>
           fetch_suggestion(dbSuggestions, h[i].poll.id) # 0

\* ------------------------------------------------------------------ C27
\* C27: when the process stops, wherever its tasks are, and is started
\* again, the new cache holds one poll for every row of the polls table and
\* nothing else, each with the status and the vote set its row's columns
\* parse to; no task and no guard of the stopped process is left.
C27_RestartRebuildsFromStore ==
    [][Restart =>
         /\ Len(polls') = Cardinality(dbPolls)
         /\ \A r \in dbPolls :
              \E k \in DOMAIN polls' :
                /\ polls'[k].id = r.id
                /\ polls'[k].message_id = r.message_id
                /\ polls'[k].author_id = r.author_id
                /\ PollStatus_parse(r.status, r.votes) =
                     [status |-> polls'[k].status, votes |-> polls'[k].votes]
         /\ lock' = 0
         /\ \A i \in Handlers : h'[i] = IdleH
      ]_vars

\* C27 witness: the process stopped between approve_suggestion and
\* update_poll_status of a completing upvote and was started again: the
\* suggestion is approved and the poll, rebuilt from its row, is Pending
\* without the vote, which a running process never turns a Completed cached
\* poll into.
C27_Witness ==
    /\ lock = 0
    /\ \A i \in Handlers : h[i] = IdleH
    /\ \E k \in DOMAIN polls :
         /\ polls[k].status = "Pending"
         /\ polls[k].votes = {}
         /\ \E sg \in dbSuggestions : sg.poll_id = polls[k].id /\ sg.approved
         /\ \E r \in dbPolls : r.id = polls[k].id /\ r.status = 0

\* ------------------------------------------------------------------ C28
\* C28: whenever no task owns the guard of the cache, every Pending poll in
\* the cache has fewer votes than poll_threshold.
C28_PendingBelowThreshold ==
    LockFree =>
      \A k \in DOMAIN polls :
        polls[k].status = "Pending" => Cardinality(polls[k].votes) < poll_threshold

\* ------------------------------------------------------------------ C29
\* C29: an upvote that has added its voter to the cached vote set never
\* returns an error because the poll's suggestion is not in the store: when
\* its fetch_suggestion call ends in an error, a suggestion of the poll is
\* in the store (the error is the store's).
C29_UpvoteFindsSuggestion ==
    [][\A i \in Handlers :
         (UpvoteFetch(i) /\ h'[i].pc = "failed") =>
           \E sg \in dbSuggestions : sg.poll_id = polls[h[i].poll_index].id
      ]_vars

\* ------------------------------------------------------------------ C30
\* C30: while no upvote is under way, every approved suggestion in the store
\* belongs to a poll whose row has the status code of Completed.
C30_ApprovedOnlyIfStoredCompleted ==
    (\A i \in Handlers : h[i].kind # "upvote") =>
      \A sg \in dbSuggestions :
        sg.approved => \E r \in dbPolls : r.id = sg.poll_id /\ r.status = 1


============================================================================
